---- MODULE Spec2Model ----
(***************************************************************************)
(* Device discovery, worker supervision and shared-state publication of    *)
(* run_live_inference_new.py, with the RateLimiter of postprocess.py.      *)
(*                                                                         *)
(* Threads: the handshake listener, one process_stream_loop thread per     *)
(* spawned worker, and a Flask request handler.  Every thread has a        *)
(* program counter; one action is one step between two accesses to shared  *)
(* state (the lists and dicts of the module, LOCK, the RateLimiter).       *)
(***************************************************************************)
EXTENDS Integers, Sequences, FiniteSets, TLC

VARIABLES
    DISCOVERED_ARDUINO_IPS, \* list of addresses (line 19)
    DETECTION_THREADS,      \* dict address -> thread (line 20)
    LOCK,                   \* threading.Lock: its holder, or Free (line 21)
    SHARED_FRAMES_DICT,     \* dict url -> last annotated frame (line 23)
    RESULTS_STORAGE,        \* full list of records (line 26)
    RECENT_DETECTIONS,      \* rolling list of records (line 29)
    SAVE_DETECTIONS,        \* CFG["pipeline"]["save_detections"] (line 399)
    RL,                     \* the RateLimiter: enable FALSE is RL = None (395-397)
    wk,                     \* per thread slot: the locals of process_stream_loop
    lst,                    \* the listener: its position and possible_ip
    http,                   \* the request handler: its position, its locals and
                            \* what it last returned
    sent,                   \* datagrams sent by the listener, per address
    answered,               \* the should_save calls that returned, in order:
                            \* <<label, current_time, result>>
    now,                    \* time.time()
    down,                   \* addresses whose device is permanently unreachable
    nrecv,                  \* datagrams received so far
    nframes,                \* frames read so far, over all workers
    budget,                 \* frames the run may still read
    read_fails              \* per thread slot: the reads that failed since the
                            \* last frame, counted for the claims

vars == << DISCOVERED_ARDUINO_IPS, DETECTION_THREADS, LOCK, SHARED_FRAMES_DICT,
           RESULTS_STORAGE, RECENT_DETECTIONS, SAVE_DETECTIONS, RL, wk, lst,
           http, sent, answered, now, down, nrecv, nframes, budget,
           read_fails >>

cfgVars == << SAVE_DETECTIONS, down >>
countVars == << nframes, budget, read_fails >>
supervisorVars == << DISCOVERED_ARDUINO_IPS, DETECTION_THREADS >>
storeVars == << SHARED_FRAMES_DICT, RESULTS_STORAGE, RECENT_DETECTIONS >>
logVars == << RESULTS_STORAGE, RECENT_DETECTIONS >>
limiterVars == << RL, answered, now >>
listenerVars == << lst, sent, nrecv >>

-----------------------------------------------------------------------------
(* Bounds of the model *)

\* datagrams the listener receives in a run; each spawns at most one thread
MaxRecv == 2

\* frames read in a run of the supervision system, over all workers
MaxFrames == 1

\* frames read in a run of the streaming workers, over all workers
StreamFrames == 2

\* the clock stops at MaxTime
MaxTime == 6

-----------------------------------------------------------------------------
(* Program constants *)

max_fail_threshold == 5

RECENT_CAPACITY == 50

interval == 5

\* cv2.waitKey(1) with no HighGUI window open (the module opens none)
waitKey == -1

ord_q == 113

-----------------------------------------------------------------------------
(* Values *)

Workers == 1 .. MaxRecv

Addr1 == << "10", "0", "0", "5" >>
Addr2 == << "10", "0", "0", "6" >>

\* A datagram, decoded and stripped: the text before the address and the
\* address split at its dots.
Messages ==
    { [head |-> "UNO_R4 IP:", body |-> Addr1],
      [head |-> "UNO_R4 IP:", body |-> Addr2],
      [head |-> "ESP32 IP:",  body |-> Addr1],
      [head |-> "UNO_R4 IP:", body |-> << "10", "0", "5" >>] }

Labels == { "car", "dog" }

\* what DETECTOR.detect may return for a frame: the label_name of each detection
DetectorOutputs == { << "car", "car" >>, << "dog" >> }

NoIp == << >>
NoRL == [enable |-> FALSE, last_save_time |-> << >>]
Free == << "free", 0 >>
ListenerTid == << "listener", 0 >>
HttpTid == << "http", 0 >>
WorkerTid(w) == << "worker", w >>

\* dict operations
DictSetDefault(d, k, v) ==
    [x \in (DOMAIN d) \cup {k} |-> IF x \in DOMAIN d THEN d[x] ELSE v]

DictSet(d, k, v) == [x \in (DOMAIN d) \cup {k} |-> IF x = k THEN v ELSE d[x]]
DictKeep(d, k) == d

DictClear(d, k) == [x \in {} |-> 0]

DictPop(d, k) == [x \in (DOMAIN d) \ {k} |-> d[x]]
EmptyDict == [x \in {} |-> 0]

\* list operations
ListRemoveNothing(s, x) == s

ListRemoveOthers(s, x) == SelectSeq(s, LAMBDA e : e = x)

ListDropFirst(s, x) == IF s = << >> THEN s ELSE Tail(s)

ListRemove(s, x) ==
    IF \E i \in 1 .. Len(s) : s[i] = x
    THEN LET i == CHOOSE i \in 1 .. Len(s) :
                    s[i] = x /\ \A j \in 1 .. (i - 1) : s[j] # x
         IN  [j \in 1 .. (Len(s) - 1) |-> IF j < i THEN s[j] ELSE s[j + 1]]
    ELSE s
ListIn(x, s) == \E i \in 1 .. Len(s) : s[i] = x
Reversed(s) == [i \in 1 .. Len(s) |-> s[Len(s) + 1 - i]]

MjpegUrl(ip) == << "http://", ip, "/" >>

-----------------------------------------------------------------------------
(* Initial state: the module's globals, and main() before the first datagram *)

\* None where a frame is expected: frames are numbered from 1
NoFrame == [frame |-> 0, boxes |-> << >>]

\* the request handler between requests
IdleHandler ==
    [pc |-> "idle", response |-> << >>, ip_list |-> << >>, source_id |-> 0,
     status |-> 0, source_key |-> NoIp, frame_to_stream |-> NoFrame,
     yielded |-> NoFrame, it_index |-> 0, appended |-> 0]

IdleWorker ==
    [pc |-> "unused", ip |-> NoIp, fail_count |-> 0, cap |-> "None",
     frame |-> 0, detections |-> << >>, di |-> 0, current_time |-> 0,
     alone |-> TRUE, run |-> 0]

InitGlobals ==
    /\ DISCOVERED_ARDUINO_IPS = << >>
    /\ DETECTION_THREADS = EmptyDict
    /\ LOCK = Free
    /\ SHARED_FRAMES_DICT = EmptyDict
    /\ RESULTS_STORAGE = << >>
    /\ RECENT_DETECTIONS = << >>
    /\ wk = [w \in Workers |-> IdleWorker]
    /\ lst = [pc |-> "recv", possible_ip |-> NoIp]
    /\ http = IdleHandler
    /\ sent = [ip \in {} |-> 0]
    /\ answered = << >>
    /\ now = 0
    /\ down = {}
    /\ nrecv = 0
    /\ nframes = 0
    /\ read_fails = [w \in Workers |-> 0]

\* main() with save_detections off: the RateLimiter is never consulted
Init ==
    /\ InitGlobals
    /\ SAVE_DETECTIONS = FALSE
    /\ RL = NoRL
    /\ budget = MaxFrames

-----------------------------------------------------------------------------
(* handshake_listener_continuous *)

StartsWithAnything(message) == TRUE

StartsWithTag(message) == message.head = "UNO_R4 IP:"

IsDotted(possible_ip) == Len(possible_ip) = 4

AlwaysNewArduino(possible_ip) == TRUE

IsNewArduino(possible_ip) == ~ ListIn(possible_ip, DISCOVERED_ARDUINO_IPS)

ThreadRunning(arduino_ip) == arduino_ip \in DOMAIN DETECTION_THREADS

SentTo(ip) == IF ip \in DOMAIN sent THEN sent[ip] ELSE 0

\* the thread slot the next threading.Thread() takes
NextSlot == CHOOSE w \in Workers :
                /\ wk[w].pc = "unused"
                /\ \A v \in Workers : v < w => wk[v].pc # "unused"

\* recvfrom raises: the error is printed, sleep(1), and the loop goes on
ListenerSocketError ==
    /\ lst.pc = "recv"
    /\ nrecv < MaxRecv
    /\ nrecv' = nrecv + 1
    /\ UNCHANGED << supervisorVars, LOCK, storeVars, limiterVars, cfgVars,
                    countVars, wk, lst, sent, http >>

ListenerRecvSendUncaught(message, send_ok) ==
    /\ lst.pc = "recv"
    /\ nrecv < MaxRecv
    /\ nrecv' = nrecv + 1
    /\ IF StartsWithTag(message) /\ IsDotted(message.body) /\ send_ok
       THEN /\ lst' = [pc |-> "lock", possible_ip |-> message.body]
            /\ sent' = DictSet(sent, message.body, SentTo(message.body) + 1)
       ELSE /\ lst' = IF StartsWithTag(message)
                      THEN [lst EXCEPT !.possible_ip = message.body]
                      ELSE lst
            /\ sent' = sent
    /\ UNCHANGED << supervisorVars, LOCK, storeVars, limiterVars, cfgVars,
                    countVars, wk, http >>

\* recvfrom, decode, the two tests on the message, and the reply, which is
\* sent for every well-formed announcement before LOCK is taken.  possible_ip
\* is assigned once the message starts with the tag, before its form is tested.
ListenerRecv(message, send_ok) ==
    /\ lst.pc = "recv"
    /\ nrecv < MaxRecv
    /\ nrecv' = nrecv + 1
    /\ IF StartsWithTag(message) /\ IsDotted(message.body)
       THEN /\ lst' = [pc |-> "lock", possible_ip |-> message.body]
            /\ sent' = IF send_ok
                       THEN DictSet(sent, message.body, SentTo(message.body) + 1)
                       ELSE sent
       ELSE /\ lst' = IF StartsWithTag(message)
                      THEN [lst EXCEPT !.possible_ip = message.body]
                      ELSE lst
            /\ sent' = sent
    /\ UNCHANGED << supervisorVars, LOCK, storeVars, limiterVars, cfgVars,
                    countVars, wk, http >>

\* with LOCK:
ListenerLock ==
    /\ lst.pc = "lock"
    /\ LOCK = Free
    /\ LOCK' = ListenerTid
    /\ lst' = [lst EXCEPT !.pc = "check"]
    /\ UNCHANGED << supervisorVars, storeVars, limiterVars, cfgVars,
                    countVars, wk, sent, nrecv, http >>

ListenerCheckUnlocked ==
    /\ lst.pc = "check"
    /\ IF IsNewArduino(lst.possible_ip)
       THEN /\ DISCOVERED_ARDUINO_IPS' =
                   Append(DISCOVERED_ARDUINO_IPS, lst.possible_ip)
            /\ lst' = [lst EXCEPT !.pc = "spawn"]
       ELSE /\ DISCOVERED_ARDUINO_IPS' = DISCOVERED_ARDUINO_IPS
            /\ lst' = [pc |-> "recv", possible_ip |-> NoIp]
    /\ LOCK' = Free
    /\ UNCHANGED << DETECTION_THREADS, storeVars, limiterVars, cfgVars,
                    countVars, wk, sent, nrecv, http >>

\* if possible_ip not in DISCOVERED_ARDUINO_IPS: append; else leave the block
ListenerCheck ==
    /\ lst.pc = "check"
    /\ IF IsNewArduino(lst.possible_ip)
       THEN /\ DISCOVERED_ARDUINO_IPS' =
                   Append(DISCOVERED_ARDUINO_IPS, lst.possible_ip)
            /\ lst' = [lst EXCEPT !.pc = "spawn"]
            /\ LOCK' = LOCK
       ELSE /\ DISCOVERED_ARDUINO_IPS' = DISCOVERED_ARDUINO_IPS
            /\ lst' = [pc |-> "recv", possible_ip |-> NoIp]
            /\ LOCK' = Free
    /\ UNCHANGED << DETECTION_THREADS, storeVars, limiterVars, cfgVars,
                    countVars, wk, sent, nrecv, http >>

\* spawn_detection_thread_for_ip, then the end of the with block
ListenerSpawn ==
    /\ lst.pc = "spawn"
    /\ IF ThreadRunning(lst.possible_ip)
       THEN UNCHANGED << DETECTION_THREADS, wk >>
       ELSE /\ DETECTION_THREADS' =
                   DictSet(DETECTION_THREADS, lst.possible_ip, NextSlot)
            /\ wk' = [wk EXCEPT ![NextSlot] =
                         [IdleWorker EXCEPT !.pc = "open",
                                            !.ip = lst.possible_ip]]
    /\ lst' = [pc |-> "recv", possible_ip |-> NoIp]
    /\ LOCK' = Free
    /\ UNCHANGED << DISCOVERED_ARDUINO_IPS, storeVars, limiterVars, cfgVars,
                    countVars, sent, nrecv, http >>

\* the thread cannot be started and nothing catches it: the listener ends
ListenerSpawnUncaught ==
    /\ lst.pc = "spawn"
    /\ ~ ThreadRunning(lst.possible_ip)
    /\ DETECTION_THREADS' = DictSet(DETECTION_THREADS, lst.possible_ip, 0)
    /\ lst' = [pc |-> "ended", possible_ip |-> lst.possible_ip]
    /\ LOCK' = Free
    /\ UNCHANGED << DISCOVERED_ARDUINO_IPS, storeVars, limiterVars, cfgVars,
                    countVars, sent, nrecv, http, wk >>

\* spawn_detection_thread_for_ip when t.start() raises (RuntimeError: can't
\* start new thread): the Thread is in DETECTION_THREADS (line 105) but runs
\* nothing.  The with block releases LOCK, the except clause of the loop
\* prints the error, sleep(1), and the loop goes on.
ListenerSpawnFails ==
    /\ lst.pc = "spawn"
    /\ ~ ThreadRunning(lst.possible_ip)
    /\ DETECTION_THREADS' = DictSet(DETECTION_THREADS, lst.possible_ip, 0)
    /\ lst' = [pc |-> "recv", possible_ip |-> NoIp]
    /\ LOCK' = Free
    /\ UNCHANGED << DISCOVERED_ARDUINO_IPS, storeVars, limiterVars, cfgVars,
                    countVars, sent, nrecv, http, wk >>

-----------------------------------------------------------------------------
(* process_stream_loop *)

AtThreshold(fail_count) == fail_count >= max_fail_threshold

OverThreshold(fail_count) == fail_count > max_fail_threshold

\* The counts kept beside fail_count to state the claims stop at one over the
\* threshold.  run counts the failures (open, read, exception) since the last
\* success (an open or a read).
Counted(n) == IF n > max_fail_threshold THEN max_fail_threshold + 1 ELSE n

\* the locals of one frame, which the next iteration overwrites
ClearFrame(r) ==
    [r EXCEPT !.frame = 0, !.detections = << >>, !.di = 0,
              !.current_time = 0, !.alone = TRUE]

FailedAndReturned(r) ==
    LET n == r.fail_count + 1
    IN  [ClearFrame(r) EXCEPT !.fail_count = n,
                              !.run = Counted(@ + 1),
                              !.pc = IF OverThreshold(n) THEN "return"
                                                         ELSE "sleep"]

FailedUncounted(r) ==
    LET n == r.fail_count
    IN  [ClearFrame(r) EXCEPT !.run = Counted(@ + 1),
                              !.pc = IF OverThreshold(n) THEN "rm_lock"
                                                         ELSE "sleep"]

\* fail_count += 1; over the threshold remove_arduino and return, otherwise
\* time.sleep(5) (lines 133-139, 147-153, 207-212)
Failed(r) ==
    LET n == r.fail_count + 1
    IN  [ClearFrame(r) EXCEPT !.fail_count = n,
                              !.run = Counted(@ + 1),
                              !.pc = IF OverThreshold(n) THEN "rm_lock"
                                                         ELSE "sleep"]

\* a frame was read: fail_count = 0 (line 155)
ResetOnRead(fail_count) == 0

KeepOnOpen(fail_count) == fail_count

\* the stream opened: fail_count = 0 (line 142)
ResetOnOpen(fail_count) == 0

\* cap = cv2.VideoCapture(mjpeg_url); cap.isOpened().  cap is "open" while
\* the worker holds an open stream, "None" otherwise.
StreamOpen(w, outcome) ==
    /\ wk[w].pc = "open"
    /\ outcome = "opened" => wk[w].ip \notin down
    /\ wk' = [wk EXCEPT ![w] =
                 CASE outcome = "opened" ->
                          [@ EXCEPT !.cap = "open", !.pc = "read",
                                    !.fail_count = ResetOnOpen(@),
                                    !.run = 0]
                   [] outcome \in {"not_opened", "raised"} -> Failed(@)]
    /\ UNCHANGED << supervisorVars, LOCK, SHARED_FRAMES_DICT, logVars,
                    limiterVars, cfgVars, listenerVars, http, countVars >>

StreamBackoffLeak(w) ==
    /\ wk[w].pc = "sleep"
    /\ wk' = [wk EXCEPT ![w] = [@ EXCEPT !.pc = "open"]]
    /\ UNCHANGED << supervisorVars, LOCK, SHARED_FRAMES_DICT, logVars,
                    limiterVars, cfgVars, listenerVars, http, countVars >>

\* the end of time.sleep(5), the finally block, and cap = None of the next
\* iteration
StreamBackoff(w) ==
    /\ wk[w].pc = "sleep"
    /\ wk' = [wk EXCEPT ![w] = [@ EXCEPT !.cap = "None", !.pc = "open"]]
    /\ UNCHANGED << supervisorVars, LOCK, SHARED_FRAMES_DICT, logVars,
                    limiterVars, cfgVars, listenerVars, http, countVars >>

\* ret, frame = cap.read()
ReadFrame(w, outcome) ==
    /\ wk[w].pc = "read"
    /\ outcome = "frame" => (wk[w].ip \notin down /\ budget > 0)
    /\ IF outcome = "frame"
       THEN /\ nframes' = nframes + 1
            /\ budget' = budget - 1
            /\ wk' = [wk EXCEPT ![w] =
                         [@ EXCEPT !.fail_count = ResetOnRead(@),
                                   !.run = 0,
                                   !.frame = nframes + 1,
                                   !.pc = "detect"]]
       ELSE /\ UNCHANGED << nframes, budget >>
            /\ wk' = [wk EXCEPT ![w] = Failed(@)]
    /\ UNCHANGED << supervisorVars, LOCK, SHARED_FRAMES_DICT, logVars,
                    limiterVars, cfgVars, listenerVars, http >>

StreamRead(w, outcome) ==
    /\ ReadFrame(w, outcome)
    /\ UNCHANGED read_fails

\* the same step, with the failed reads since the last frame counted
StreamReadCounted(w, outcome) ==
    /\ ReadFrame(w, outcome)
    /\ read_fails' = [read_fails EXCEPT ![w] =
                         IF outcome = "frame" THEN 0 ELSE Counted(@ + 1)]

\* detections = DETECTOR.detect(frame); frame_drawn = draw_boxes(...)
StreamDetect(w, outcome, result) ==
    /\ wk[w].pc = "detect"
    /\ wk' = [wk EXCEPT ![w] =
                 IF outcome = "raised"
                 THEN Failed(@)
                 ELSE [@ EXCEPT !.detections = result, !.pc = "put"]]
    /\ UNCHANGED << supervisorVars, LOCK, SHARED_FRAMES_DICT, logVars,
                    limiterVars, cfgVars, listenerVars, http, countVars >>

\* frame_drawn = draw_boxes(frame.copy(), detections): the frame and its boxes
draw_boxes(frame, detections) == [frame |-> frame, boxes |-> detections]

Record(r) ==
    [source |-> MjpegUrl(r.ip), frame |-> r.frame, detections |-> r.detections]

\* cv2.waitKey(1) & 0xFF == ord('q')
QuitPressed == (waitKey % 256) = ord_q

\* the end of one frame: the 'q' test, then the next cap.read()
EndFrame(r) ==
    [ClearFrame(r) EXCEPT !.pc = IF QuitPressed THEN "rm_lock" ELSE "read"]

\* for det in detections, at detection i: the RateLimiter first, if there is one
AtDetection(r, i) ==
    IF i <= Len(r.detections)
    THEN [r EXCEPT !.di = i, !.current_time = 0, !.alone = TRUE,
                   !.pc = IF RL.enable THEN "rl_time" ELSE "save"]
    ELSE EndFrame(r)

\* after the record is stored: if SAVE_DETECTIONS, the loop over detections
AfterLog(r) == IF SAVE_DETECTIONS THEN AtDetection(r, 1) ELSE EndFrame(r)

StreamPutLocked(w) ==
    /\ wk[w].pc = "put"
    /\ LOCK = Free
    /\ LOCK' = WorkerTid(w)
    /\ SHARED_FRAMES_DICT' =
           DictSet(SHARED_FRAMES_DICT, MjpegUrl(wk[w].ip),
                   draw_boxes(wk[w].frame, wk[w].detections))
    /\ wk' = [wk EXCEPT ![w] =
                 IF Len(@.detections) > 0 THEN [@ EXCEPT !.pc = "append"]
                                          ELSE AfterLog(@)]
    /\ UNCHANGED << supervisorVars, logVars, limiterVars, cfgVars,
                    listenerVars, http, countVars >>

\* SHARED_FRAMES_DICT[mjpeg_url] = frame_drawn.copy(); then if detections:
StreamPut(w) ==
    /\ wk[w].pc = "put"
    /\ SHARED_FRAMES_DICT' =
           DictSet(SHARED_FRAMES_DICT, MjpegUrl(wk[w].ip),
                   draw_boxes(wk[w].frame, wk[w].detections))
    /\ wk' = [wk EXCEPT ![w] =
                 IF Len(@.detections) > 0 THEN [@ EXCEPT !.pc = "append"]
                                          ELSE AfterLog(@)]
    /\ UNCHANGED << supervisorVars, LOCK, logVars, limiterVars, cfgVars,
                    listenerVars, http, countVars >>

LogPrepend(w) ==
    /\ wk[w].pc = "append"
    /\ RESULTS_STORAGE' = << Record(wk[w]) >> \o RESULTS_STORAGE
    /\ RECENT_DETECTIONS' = << Record(wk[w]) >> \o RECENT_DETECTIONS
    /\ wk' = [wk EXCEPT ![w] = [@ EXCEPT !.pc = "check"]]
    /\ UNCHANGED << supervisorVars, LOCK, SHARED_FRAMES_DICT, limiterVars,
                    cfgVars, listenerVars, http, countVars >>

\* RESULTS_STORAGE.append(record), which nothing reads, and the first line of
\* add_recent_detection, RECENT_DETECTIONS.append(detection_record)
LogAppend(w) ==
    /\ wk[w].pc = "append"
    /\ RESULTS_STORAGE' = Append(RESULTS_STORAGE, Record(wk[w]))
    /\ RECENT_DETECTIONS' = Append(RECENT_DETECTIONS, Record(wk[w]))
    /\ wk' = [wk EXCEPT ![w] = [@ EXCEPT !.pc = "check"]]
    /\ UNCHANGED << supervisorVars, LOCK, SHARED_FRAMES_DICT, limiterVars,
                    cfgVars, listenerVars, http, countVars >>

TooLong(recent) == Len(recent) > RECENT_CAPACITY

\* if len(RECENT_DETECTIONS) > 50:
LogCheck(w) ==
    /\ wk[w].pc = "check"
    /\ wk' = [wk EXCEPT ![w] =
                 IF TooLong(RECENT_DETECTIONS) THEN [@ EXCEPT !.pc = "pop"]
                                               ELSE AfterLog(@)]
    /\ UNCHANGED << supervisorVars, LOCK, SHARED_FRAMES_DICT, logVars,
                    limiterVars, cfgVars, listenerVars, http, countVars >>

\* RECENT_DETECTIONS.pop(0)
LogPop(w) ==
    /\ wk[w].pc = "pop"
    /\ RECENT_DETECTIONS' = Tail(RECENT_DETECTIONS)
    /\ wk' = [wk EXCEPT ![w] = AfterLog(@)]
    /\ UNCHANGED << supervisorVars, LOCK, SHARED_FRAMES_DICT, RESULTS_STORAGE,
                    limiterVars, cfgVars, listenerVars, http, countVars >>

-----------------------------------------------------------------------------
(* RateLimiter.should_save, called from process_stream_loop *)

Label(r) == r.detections[r.di]

HasRecord(last_save_time, label) == label \in DOMAIN last_save_time

CooledDownStrictly(last_save_time, label, current_time) ==
    (current_time - last_save_time[label]) > interval

CooledDown(last_save_time, label, current_time) ==
    (current_time - last_save_time[label]) >= interval

\* the workers that are inside should_save
InLimiter(r) == r.pc \in {"rl_member", "rl_compare", "rl_store"}

\* current_time = time.time()
LimiterTime(w) ==
    /\ wk[w].pc = "rl_time"
    /\ wk' = [wk EXCEPT ![w] =
                 [@ EXCEPT !.current_time = now, !.pc = "rl_member"]]
    /\ UNCHANGED << supervisorVars, LOCK, SHARED_FRAMES_DICT, logVars,
                    limiterVars, cfgVars, listenerVars, http, countVars >>

\* if label not in self.last_save_time:
LimiterMember(w) ==
    /\ wk[w].pc = "rl_member"
    /\ wk' = [wk EXCEPT ![w] =
                 [@ EXCEPT !.pc = IF HasRecord(RL.last_save_time, Label(wk[w]))
                                  THEN "rl_compare" ELSE "rl_store"]]
    /\ UNCHANGED << supervisorVars, LOCK, SHARED_FRAMES_DICT, logVars,
                    limiterVars, cfgVars, listenerVars, http, countVars >>

\* if (current_time - self.last_save_time[label]) >= self.interval: otherwise
\* return False, and the loop continues with the next detection
LimiterCompare(w) ==
    /\ wk[w].pc = "rl_compare"
    /\ IF CooledDown(RL.last_save_time, Label(wk[w]), wk[w].current_time)
       THEN /\ wk' = [wk EXCEPT ![w] = [@ EXCEPT !.pc = "rl_store"]]
            /\ answered' = answered
       ELSE /\ wk' = [wk EXCEPT ![w] = AtDetection(@, @.di + 1)]
            /\ answered' = Append(answered, << Label(wk[w]),
                                               wk[w].current_time, FALSE >>)
    /\ UNCHANGED << supervisorVars, LOCK, SHARED_FRAMES_DICT, logVars, RL, now,
                    cfgVars, listenerVars, http, countVars >>

LimiterStoreGlobal(w) ==
    /\ wk[w].pc = "rl_store"
    /\ RL' = [RL EXCEPT !.last_save_time =
                             [l \in Labels |-> wk[w].current_time]]
    /\ answered' = Append(answered, << Label(wk[w]), wk[w].current_time,
                                       TRUE >>)
    /\ wk' = [v \in Workers |->
                 IF v = w THEN [wk[v] EXCEPT !.pc = "save"]
                 ELSE IF InLimiter(wk[v]) THEN [wk[v] EXCEPT !.alone = FALSE]
                 ELSE wk[v]]
    /\ UNCHANGED << supervisorVars, LOCK, SHARED_FRAMES_DICT, logVars, now,
                    cfgVars, listenerVars, http, countVars >>

\* self.last_save_time[label] = current_time; return True.  The workers that
\* are inside should_save meanwhile are no longer alone in it.
LimiterStore(w) ==
    /\ wk[w].pc = "rl_store"
    /\ RL' = [RL EXCEPT !.last_save_time =
                             DictSet(@, Label(wk[w]), wk[w].current_time)]
    /\ answered' = Append(answered, << Label(wk[w]), wk[w].current_time,
                                       TRUE >>)
    /\ wk' = [v \in Workers |->
                 IF v = w THEN [wk[v] EXCEPT !.pc = "save"]
                 ELSE IF InLimiter(wk[v]) THEN [wk[v] EXCEPT !.alone = FALSE]
                 ELSE wk[v]]
    /\ UNCHANGED << supervisorVars, LOCK, SHARED_FRAMES_DICT, logVars, now,
                    cfgVars, listenerVars, http, countVars >>

\* save_detection(frame, bbox, score, label_name, OUTPUT_PATH)
StreamSave(w, outcome) ==
    /\ wk[w].pc = "save"
    /\ wk' = [wk EXCEPT ![w] =
                 IF outcome = "raised" THEN Failed(@)
                                       ELSE AtDetection(@, @.di + 1)]
    /\ UNCHANGED << supervisorVars, LOCK, SHARED_FRAMES_DICT, logVars,
                    limiterVars, cfgVars, listenerVars, http, countVars >>

\* the clock
Tick ==
    /\ now < MaxTime
    /\ now' = now + 1
    /\ UNCHANGED << supervisorVars, LOCK, SHARED_FRAMES_DICT, logVars, RL,
                    answered, cfgVars, listenerVars, http, countVars, wk >>

-----------------------------------------------------------------------------
(* remove_arduino, called from process_stream_loop *)

\* with LOCK:
RemoveLock(w) ==
    /\ wk[w].pc = "rm_lock"
    /\ LOCK = Free
    /\ LOCK' = WorkerTid(w)
    /\ wk' = [wk EXCEPT ![w] = [@ EXCEPT !.pc = "rm_ip"]]
    /\ UNCHANGED << supervisorVars, SHARED_FRAMES_DICT, logVars, limiterVars,
                    cfgVars, listenerVars, http, countVars >>

\* if arduino_ip in DISCOVERED_ARDUINO_IPS: remove
RemoveIp(w) ==
    /\ wk[w].pc = "rm_ip"
    /\ DISCOVERED_ARDUINO_IPS' = ListRemove(DISCOVERED_ARDUINO_IPS, wk[w].ip)
    /\ wk' = [wk EXCEPT ![w] = [@ EXCEPT !.pc = "rm_thread"]]
    /\ UNCHANGED << DETECTION_THREADS, LOCK, SHARED_FRAMES_DICT, logVars,
                    limiterVars, cfgVars, listenerVars, http, countVars >>

\* if arduino_ip in DETECTION_THREADS: pop
RemoveThread(w) ==
    /\ wk[w].pc = "rm_thread"
    /\ DETECTION_THREADS' = DictPop(DETECTION_THREADS, wk[w].ip)
    /\ wk' = [wk EXCEPT ![w] = [@ EXCEPT !.pc = "rm_frame"]]
    /\ UNCHANGED << DISCOVERED_ARDUINO_IPS, LOCK, SHARED_FRAMES_DICT, logVars,
                    limiterVars, cfgVars, listenerVars, http, countVars >>

RemoveFrameHeld(w) ==
    /\ wk[w].pc = "rm_frame"
    /\ SHARED_FRAMES_DICT' = DictPop(SHARED_FRAMES_DICT, MjpegUrl(wk[w].ip))
    /\ LOCK' = LOCK
    /\ wk' = [wk EXCEPT ![w] = [@ EXCEPT !.pc = "return"]]
    /\ UNCHANGED << supervisorVars, logVars, limiterVars, cfgVars,
                    listenerVars, http, countVars >>

\* if mjpeg_url in SHARED_FRAMES_DICT: pop; and the end of the with block
RemoveFrame(w) ==
    /\ wk[w].pc = "rm_frame"
    /\ SHARED_FRAMES_DICT' = DictPop(SHARED_FRAMES_DICT, MjpegUrl(wk[w].ip))
    /\ LOCK' = Free
    /\ wk' = [wk EXCEPT ![w] = [@ EXCEPT !.pc = "return"]]
    /\ UNCHANGED << supervisorVars, logVars, limiterVars, cfgVars,
                    listenerVars, http, countVars >>

\* return, through the finally block: cap.release() if there is a cap
StreamReturn(w) ==
    /\ wk[w].pc = "return"
    /\ wk' = [wk EXCEPT ![w] = [@ EXCEPT !.cap = "None", !.pc = "done"]]
    /\ UNCHANGED << supervisorVars, LOCK, SHARED_FRAMES_DICT, logVars,
                    limiterVars, cfgVars, listenerVars, http, countVars >>

\* a device goes away for good
DeviceDown(ip) ==
    /\ ip \notin down
    /\ down' = down \cup {ip}
    /\ UNCHANGED << supervisorVars, LOCK, SHARED_FRAMES_DICT, logVars,
                    limiterVars, SAVE_DETECTIONS, listenerVars, http,
                    countVars, wk >>

-----------------------------------------------------------------------------
(* api_recent_detections *)

\* with LOCK:
ApiLock ==
    /\ http.pc = "idle"
    /\ LOCK = Free
    /\ LOCK' = HttpTid
    /\ http' = [IdleHandler EXCEPT !.pc = "reversed"]
    /\ UNCHANGED << supervisorVars, SHARED_FRAMES_DICT, logVars, limiterVars,
                    cfgVars, listenerVars, countVars, wk >>

\* reversed(a_list) is an iterator over the list itself, not a copy: it keeps
\* the index of the item it gives next, at first the last one (counted from 1
\* here, 0 when there is none)
ReversedIterator(a_list) == Len(a_list)

\* list(iterator), which runs the iterator to its end in one call: the items
\* from it_index down to the first, or nothing when it_index is no longer an
\* index of the list
ListOfReversed(a_list, it_index) ==
    IF it_index <= Len(a_list)
    THEN [i \in 1 .. it_index |-> a_list[it_index - i + 1]]
    ELSE << >>

\* reversed(RECENT_DETECTIONS), the inner call of line 345; other threads can
\* run before the outer call.  appended keeps, to state the claims, how many
\* records had been appended by then.
ApiReversed ==
    /\ http.pc = "reversed"
    /\ http' = [http EXCEPT !.pc = "snapshot",
                            !.it_index = ReversedIterator(RECENT_DETECTIONS),
                            !.appended = Len(RESULTS_STORAGE)]
    /\ UNCHANGED << supervisorVars, LOCK, SHARED_FRAMES_DICT, logVars,
                    limiterVars, cfgVars, listenerVars, countVars, wk >>

\* reversed_list = list(...); the end of the with block; return jsonify(...)
ApiSnapshot ==
    /\ http.pc = "snapshot"
    /\ http' = [IdleHandler EXCEPT
                    !.response = ListOfReversed(RECENT_DETECTIONS,
                                                http.it_index),
                    !.status = 200]
    /\ LOCK' = Free
    /\ UNCHANGED << supervisorVars, SHARED_FRAMES_DICT, logVars, limiterVars,
                    cfgVars, listenerVars, countVars, wk >>

-----------------------------------------------------------------------------
(* index *)

\* with LOCK:
IndexLock ==
    /\ http.pc = "idle"
    /\ LOCK = Free
    /\ LOCK' = HttpTid
    /\ http' = [IdleHandler EXCEPT !.pc = "index"]
    /\ UNCHANGED << supervisorVars, SHARED_FRAMES_DICT, logVars, limiterVars,
                    cfgVars, listenerVars, countVars, wk >>

\* ip_list = list(DISCOVERED_ARDUINO_IPS); the page is built from ip_list
IndexCopy ==
    /\ http.pc = "index"
    /\ http' = [IdleHandler EXCEPT !.ip_list = DISCOVERED_ARDUINO_IPS,
                                   !.status = 200]
    /\ LOCK' = Free
    /\ UNCHANGED << supervisorVars, SHARED_FRAMES_DICT, logVars, limiterVars,
                    cfgVars, listenerVars, countVars, wk >>

-----------------------------------------------------------------------------
(* video_feed and generate_frames *)

\* the paths a client asks for: /video_feed/-1 .. /video_feed/MaxRecv
SourceIds == -1 .. MaxRecv

\* '/video_feed/<int:source_id>': the int converter matches digits only, so a
\* path with a negative number has no route and is answered 404
Routed(source_id) == source_id >= 0

OutOfRangeByOne(source_id, ips) == source_id < 0 \/ source_id + 1 >= Len(ips)

\* if source_id < 0 or source_id >= len(DISCOVERED_ARDUINO_IPS):
OutOfRange(source_id, ips) == source_id < 0 \/ source_id >= Len(ips)

\* Python's list index: ips[source_id]
ListAt(ips, source_id) == ips[source_id + 1]

GetInserting(d, k) == IF k \in DOMAIN d THEN d ELSE DictSet(d, k, NoFrame)

\* SHARED_FRAMES_DICT.get(source_key, None) leaves the dict as it is
AfterGet(d, k) == d

DictGet(d, k) == IF k \in DOMAIN d THEN d[k] ELSE NoFrame

FeedNoRoute(source_id) ==
    /\ http.pc = "idle"
    /\ ~ Routed(source_id)
    /\ http' = [IdleHandler EXCEPT !.source_id = source_id, !.status = 404]
    /\ UNCHANGED << supervisorVars, LOCK, SHARED_FRAMES_DICT, logVars,
                    limiterVars, cfgVars, listenerVars, countVars, wk >>

\* with LOCK:
FeedLock(source_id) ==
    /\ http.pc = "idle"
    /\ Routed(source_id)
    /\ LOCK = Free
    /\ LOCK' = HttpTid
    /\ http' = [IdleHandler EXCEPT !.pc = "lookup", !.source_id = source_id]
    /\ UNCHANGED << supervisorVars, SHARED_FRAMES_DICT, logVars, limiterVars,
                    cfgVars, listenerVars, countVars, wk >>

\* the range test; return 404, or ip = DISCOVERED_ARDUINO_IPS[source_id] and
\* the Response with generate_frames(mjpeg_url)
FeedLookup ==
    /\ http.pc = "lookup"
    /\ http' = IF OutOfRange(http.source_id, DISCOVERED_ARDUINO_IPS)
               THEN [http EXCEPT !.pc = "idle", !.status = 404]
               ELSE [http EXCEPT
                        !.pc = "stream", !.status = 200,
                        !.source_key =
                            MjpegUrl(ListAt(DISCOVERED_ARDUINO_IPS,
                                            http.source_id))]
    /\ LOCK' = Free
    /\ UNCHANGED << supervisorVars, SHARED_FRAMES_DICT, logVars, limiterVars,
                    cfgVars, listenerVars, countVars, wk >>

FeedPollByIndex(ret) ==
    LET key == IF OutOfRange(http.source_id, DISCOVERED_ARDUINO_IPS)
               THEN http.source_key
               ELSE MjpegUrl(ListAt(DISCOVERED_ARDUINO_IPS, http.source_id))
    IN  /\ http.pc = "stream"
        /\ SHARED_FRAMES_DICT' = AfterGet(SHARED_FRAMES_DICT, key)
        /\ http' = [http EXCEPT
                       !.frame_to_stream = DictGet(SHARED_FRAMES_DICT, key),
                       !.yielded = IF ret
                                   THEN DictGet(SHARED_FRAMES_DICT, key)
                                   ELSE NoFrame]
        /\ UNCHANGED << supervisorVars, LOCK, logVars, limiterVars, cfgVars,
                        listenerVars, countVars, wk >>

\* one turn of generate_frames: frame_to_stream = SHARED_FRAMES_DICT.get(...),
\* and the part that is yielded if it is not None (imencode gives ret True or
\* False)
FeedPoll(ret) ==
    /\ http.pc = "stream"
    /\ SHARED_FRAMES_DICT' = AfterGet(SHARED_FRAMES_DICT, http.source_key)
    /\ http' = [http EXCEPT
                   !.frame_to_stream = DictGet(SHARED_FRAMES_DICT,
                                               http.source_key),
                   !.yielded = IF ret
                               THEN DictGet(SHARED_FRAMES_DICT, http.source_key)
                               ELSE NoFrame]
    /\ UNCHANGED << supervisorVars, LOCK, logVars, limiterVars, cfgVars,
                    listenerVars, countVars, wk >>

\* the client closes the connection: the generator is closed
FeedClose ==
    /\ http.pc = "stream"
    /\ http' = [http EXCEPT !.pc = "idle", !.frame_to_stream = NoFrame,
                            !.yielded = NoFrame]
    /\ UNCHANGED << supervisorVars, LOCK, SHARED_FRAMES_DICT, logVars,
                    limiterVars, cfgVars, listenerVars, countVars, wk >>

ServerStep ==
    \/ ApiLock
    \/ ApiReversed
    \/ ApiSnapshot
    \/ IndexLock
    \/ IndexCopy
    \/ \E source_id \in SourceIds : FeedNoRoute(source_id)
    \/ \E source_id \in SourceIds : FeedLock(source_id)
    \/ FeedLookup
    \/ \E ret \in BOOLEAN : FeedPoll(ret)
    \/ FeedClose

-----------------------------------------------------------------------------
(* The supervision system: the listener and the workers it spawns *)

OpenOutcomes == { "opened", "not_opened", "raised" }
ReadOutcomes == { "frame", "no_frame", "raised" }
CallOutcomes == { "done", "raised" }

ListenerStep ==
    \/ ListenerSocketError
    \/ \E message \in Messages, send_ok \in BOOLEAN :
           ListenerRecv(message, send_ok)
    \/ ListenerLock
    \/ ListenerCheck
    \/ ListenerSpawn

ConnectStep(w) ==
    \/ \E outcome \in OpenOutcomes : StreamOpen(w, outcome)
    \/ StreamBackoff(w)

PublishStep(w) ==
    \/ \E outcome \in CallOutcomes, result \in { << >>, << "car" >> } :
           StreamDetect(w, outcome, result)
    \/ StreamPut(w)
    \/ LogAppend(w)
    \/ LogCheck(w)

EvictStep(w) ==
    \/ RemoveLock(w)
    \/ RemoveIp(w)
    \/ RemoveThread(w)
    \/ RemoveFrame(w)
    \/ StreamReturn(w)

Next ==
    \/ ListenerStep
    \/ \E w \in Workers : ConnectStep(w)
    \/ \E w \in Workers, outcome \in ReadOutcomes : StreamRead(w, outcome)
    \/ \E w \in Workers : PublishStep(w)
    \/ \E w \in Workers : EvictStep(w)

Spec == Init /\ [][Next]_vars

\* the same system, with the failed reads counted
NextCounted ==
    \/ ListenerStep
    \/ \E w \in Workers : ConnectStep(w)
    \/ \E w \in Workers, outcome \in ReadOutcomes :
           StreamReadCounted(w, outcome)
    \/ \E w \in Workers : PublishStep(w)
    \/ \E w \in Workers : EvictStep(w)

SpecCounted == Init /\ [][NextCounted]_vars

\* the same system, with devices that go away for good.  Every thread that can
\* take a step takes one in the end, and a thread that waits for LOCK gets it
\* when LOCK is free again and again.
NextDown ==
    \/ Next
    \/ \E ip \in {Addr1, Addr2} : DeviceDown(ip)

WorkerStep(w) ==
    \/ ConnectStep(w)
    \/ \E outcome \in ReadOutcomes : StreamRead(w, outcome)
    \/ PublishStep(w)
    \/ EvictStep(w)

Fairness ==
    /\ \A w \in Workers : WF_vars(WorkerStep(w))
    /\ \A w \in Workers : SF_vars(RemoveLock(w))
    /\ WF_vars(ListenerCheck \/ ListenerSpawn)

FairSpec == Init /\ [][NextDown]_vars /\ Fairness

\* the supervision system where starting a thread can fail.  The listener
\* gets LOCK when it is free again and again, and goes on when it can.
NextListen ==
    \/ Next
    \/ ListenerSpawnFails

ListenerFairness ==
    /\ \A w \in Workers : WF_vars(WorkerStep(w))
    /\ \A w \in Workers : SF_vars(RemoveLock(w))
    /\ SF_vars(ListenerLock)
    /\ WF_vars(ListenerCheck \/ ListenerSpawn \/ ListenerSpawnFails)

FairListen == Init /\ [][NextListen]_vars /\ ListenerFairness

-----------------------------------------------------------------------------
(* The streaming workers: two devices are registered and their streams are  *)
(* open; the first has had k frames with a car in each, the second none.    *)

Streaming(ip) == [IdleWorker EXCEPT !.pc = "read", !.ip = ip, !.cap = "open"]

Prefilled(k) ==
    [i \in 1 .. k |->
        [source |-> MjpegUrl(Addr1), frame |-> i, detections |-> << "car" >>]]

InitStreaming(k) ==
    /\ DISCOVERED_ARDUINO_IPS = << Addr1, Addr2 >>
    /\ DETECTION_THREADS = DictSet(DictSet(EmptyDict, Addr1, 1), Addr2, 2)
    /\ LOCK = Free
    /\ SHARED_FRAMES_DICT =
           IF k = 0 THEN EmptyDict
           ELSE DictSet(EmptyDict, MjpegUrl(Addr1), draw_boxes(k, << "car" >>))
    /\ RESULTS_STORAGE = Prefilled(k)
    /\ RECENT_DETECTIONS = Prefilled(k)
    /\ wk = [w \in Workers |-> IF w = 1 THEN Streaming(Addr1)
                               ELSE IF w = 2 THEN Streaming(Addr2)
                               ELSE IdleWorker]
    /\ lst = [pc |-> "recv", possible_ip |-> NoIp]
    /\ http = IdleHandler
    /\ sent = DictSet(DictSet(EmptyDict, Addr1, 1), Addr2, 1)
    /\ answered = << >>
    /\ now = 0
    /\ down = {}
    /\ nrecv = 2
    /\ nframes = k
    /\ budget = StreamFrames
    /\ read_fails = [w \in Workers |-> 0]

\* save_detections off; the rolling list holds up to RECENT_CAPACITY records
InitLog ==
    /\ \E k \in 0 .. RECENT_CAPACITY : InitStreaming(k)
    /\ SAVE_DETECTIONS = FALSE
    /\ RL = NoRL

NextLog ==
    \/ \E w \in Workers : StreamRead(w, "frame")
    \/ \E w \in Workers, result \in { << >>, << "car" >> } :
           StreamDetect(w, "done", result)
    \/ \E w \in Workers : StreamPut(w)
    \/ \E w \in Workers : LogAppend(w)
    \/ \E w \in Workers : LogCheck(w)
    \/ \E w \in Workers : LogPop(w)
    \/ ApiLock
    \/ ApiReversed
    \/ ApiSnapshot

SpecLog == InitLog /\ [][NextLog]_vars

\* save_detections on, with a RateLimiter
InitRL ==
    /\ InitStreaming(0)
    /\ SAVE_DETECTIONS = TRUE
    /\ RL = [enable |-> TRUE, last_save_time |-> EmptyDict]

NextRL ==
    \/ \E w \in Workers : StreamRead(w, "frame")
    \/ \E w \in Workers, result \in DetectorOutputs :
           StreamDetect(w, "done", result)
    \/ \E w \in Workers : StreamPut(w)
    \/ \E w \in Workers : LogAppend(w)
    \/ \E w \in Workers : LogCheck(w)
    \/ \E w \in Workers : LimiterTime(w)
    \/ \E w \in Workers : LimiterMember(w)
    \/ \E w \in Workers : LimiterCompare(w)
    \/ \E w \in Workers : LimiterStore(w)
    \/ \E w \in Workers : StreamSave(w, "done")
    \/ Tick

SpecRL == InitRL /\ [][NextRL]_vars

\* save_detections on, without a RateLimiter; save_detection can raise
InitSave ==
    /\ InitStreaming(0)
    /\ SAVE_DETECTIONS = TRUE
    /\ RL = NoRL

NextSave ==
    \/ \E w \in Workers : StreamRead(w, "frame")
    \/ \E w \in Workers, result \in DetectorOutputs :
           StreamDetect(w, "done", result)
    \/ \E w \in Workers : StreamPut(w)
    \/ \E w \in Workers : LogAppend(w)
    \/ \E w \in Workers : LogCheck(w)
    \/ \E w \in Workers, outcome \in CallOutcomes : StreamSave(w, outcome)
    \/ \E w \in Workers : StreamBackoff(w)
    \/ \E w \in Workers : StreamOpen(w, "opened")

SpecSave == InitSave /\ [][NextSave]_vars

-----------------------------------------------------------------------------
(* The supervision system with the Flask server *)

NextWeb ==
    \/ ListenerStep
    \/ \E w \in Workers : ConnectStep(w)
    \/ \E w \in Workers, outcome \in ReadOutcomes : StreamRead(w, outcome)
    \/ \E w \in Workers : PublishStep(w)
    \/ \E w \in Workers : EvictStep(w)
    \/ ServerStep

SpecWeb == Init /\ [][NextWeb]_vars

\* the same system under fair scheduling: every thread that can take a step
\* takes one in the end, a thread that waits for LOCK gets it when LOCK is
\* free again and again, and a handler inside its with block goes on
HandlerInLock ==
    \/ ApiReversed
    \/ ApiSnapshot
    \/ IndexCopy
    \/ FeedLookup

WebFairness ==
    /\ \A w \in Workers : WF_vars(WorkerStep(w))
    /\ \A w \in Workers : SF_vars(RemoveLock(w))
    /\ SF_vars(ListenerLock)
    /\ WF_vars(ListenerCheck \/ ListenerSpawn)
    /\ WF_vars(HandlerInLock)

\* the threads that take LOCK, with devices that send no frame: a worker
\* opens its stream or not and every read fails
NextQuiet ==
    \/ ListenerStep
    \/ \E w \in Workers : ConnectStep(w)
    \/ \E w \in Workers, outcome \in { "no_frame", "raised" } :
           StreamRead(w, outcome)
    \/ \E w \in Workers : EvictStep(w)
    \/ ServerStep

FairLock == Init /\ [][NextQuiet]_vars /\ WebFairness

-----------------------------------------------------------------------------
(* remove_arduino on its own: thread 1 calls it for an address that is       *)
(* registered (listed, with this thread, with or without a frame) or is not, *)
(* while the other address is registered or not.                             *)

Range(s) == { s[i] : i \in 1 .. Len(s) }

Listings ==
    { << >>, << Addr1 >>, << Addr2 >>, << Addr1, Addr2 >>, << Addr2, Addr1 >> }

\* the worker that has given up on arduino_ip
GivingUp(arduino_ip) ==
    [IdleWorker EXCEPT !.pc = "rm_lock", !.ip = arduino_ip,
                       !.fail_count = max_fail_threshold + 1,
                       !.run = max_fail_threshold + 1]

InitEvict ==
    \E ips \in Listings, framed \in SUBSET {Addr1, Addr2},
       arduino_ip \in {Addr1, Addr2}, k \in 0 .. 1 :
        /\ framed \subseteq Range(ips)
        /\ DISCOVERED_ARDUINO_IPS = ips
        /\ DETECTION_THREADS =
               [ip \in Range(ips) |-> IF ip = arduino_ip THEN 1 ELSE 2]
        /\ LOCK = Free
        /\ SHARED_FRAMES_DICT =
               [url \in { MjpegUrl(ip) : ip \in framed } |->
                   draw_boxes(1, << >>)]
        /\ RESULTS_STORAGE = Prefilled(k)
        /\ RECENT_DETECTIONS = Prefilled(k)
        /\ wk = [w \in Workers |->
                    IF w = 1 THEN GivingUp(arduino_ip)
                    ELSE IF w = 2 /\ (Range(ips) \ {arduino_ip}) # {}
                    THEN Streaming(CHOOSE ip \in Range(ips) : ip # arduino_ip)
                    ELSE IdleWorker]
        /\ lst = [pc |-> "recv", possible_ip |-> NoIp]
        /\ http = IdleHandler
        /\ sent = EmptyDict
        /\ answered = << >>
        /\ now = 0
        /\ down = {}
        /\ nrecv = MaxRecv
        /\ nframes = k
        /\ budget = 0
        /\ read_fails = [w \in Workers |-> 0]
        /\ SAVE_DETECTIONS = FALSE
        /\ RL = NoRL

NextEvict ==
    \/ RemoveLock(1)
    \/ RemoveIp(1)
    \/ RemoveThread(1)
    \/ RemoveFrame(1)
    \/ StreamReturn(1)

SpecEvict == InitEvict /\ [][NextEvict]_vars

-----------------------------------------------------------------------------
(* The frames of one device: the first address is registered, its stream is  *)
(* open and a client has its feed open; the device may be announced again.   *)

Announce(ip) == [head |-> "UNO_R4 IP:", body |-> ip]

OpenFeed(source_id, ip) ==
    [IdleHandler EXCEPT !.pc = "stream", !.status = 200,
                        !.source_id = source_id, !.source_key = MjpegUrl(ip)]

InitStore ==
    /\ DISCOVERED_ARDUINO_IPS = << Addr1 >>
    /\ DETECTION_THREADS = DictSet(EmptyDict, Addr1, 1)
    /\ LOCK = Free
    /\ SHARED_FRAMES_DICT = EmptyDict
    /\ RESULTS_STORAGE = << >>
    /\ RECENT_DETECTIONS = << >>
    /\ wk = [w \in Workers |-> IF w = 1 THEN Streaming(Addr1) ELSE IdleWorker]
    /\ lst = [pc |-> "recv", possible_ip |-> NoIp]
    /\ http = OpenFeed(0, Addr1)
    /\ sent = DictSet(EmptyDict, Addr1, 1)
    /\ answered = << >>
    /\ now = 0
    /\ down = {}
    /\ nrecv = 1
    /\ nframes = 0
    /\ budget = StreamFrames
    /\ read_fails = [w \in Workers |-> 0]
    /\ SAVE_DETECTIONS = FALSE
    /\ RL = NoRL

NextStore ==
    \/ ListenerRecv(Announce(Addr1), TRUE)
    \/ ListenerLock
    \/ ListenerCheck
    \/ ListenerSpawn
    \/ \E w \in Workers, outcome \in { "opened", "not_opened" } :
           StreamOpen(w, outcome)
    \/ \E w \in Workers : StreamBackoff(w)
    \/ \E w \in Workers, outcome \in { "frame", "no_frame" } :
           StreamRead(w, outcome)
    \/ \E w \in Workers, result \in { << >>, << "car" >> } :
           StreamDetect(w, "done", result)
    \/ \E w \in Workers : StreamPut(w)
    \/ \E w \in Workers : LogAppend(w)
    \/ \E w \in Workers : LogCheck(w)
    \/ \E w \in Workers : EvictStep(w)
    \/ \E ret \in BOOLEAN : FeedPoll(ret)

SpecStore == InitStore /\ [][NextStore]_vars

-----------------------------------------------------------------------------
(* One device that is announced again and again: the first address is       *)
(* registered and its worker is opening the stream, which may never open.   *)

\* a worker as spawn_detection_thread_for_ip starts it
Connecting(ip) == [IdleWorker EXCEPT !.pc = "open", !.ip = ip]

InitAgain ==
    /\ DISCOVERED_ARDUINO_IPS = << Addr1 >>
    /\ DETECTION_THREADS = DictSet(EmptyDict, Addr1, 1)
    /\ LOCK = Free
    /\ SHARED_FRAMES_DICT = EmptyDict
    /\ RESULTS_STORAGE = << >>
    /\ RECENT_DETECTIONS = << >>
    /\ wk = [w \in Workers |-> IF w = 1 THEN Connecting(Addr1) ELSE IdleWorker]
    /\ lst = [pc |-> "recv", possible_ip |-> NoIp]
    /\ http = IdleHandler
    /\ sent = DictSet(EmptyDict, Addr1, 1)
    /\ answered = << >>
    /\ now = 0
    /\ down = {}
    /\ nrecv = 0
    /\ nframes = 0
    /\ budget = MaxFrames
    /\ read_fails = [w \in Workers |-> 0]
    /\ SAVE_DETECTIONS = FALSE
    /\ RL = NoRL

\* no datagram is taken once every thread slot of the model is in use
NextAgain ==
    \/ /\ \E w \in Workers : wk[w].pc = "unused"
       /\ \E send_ok \in BOOLEAN : ListenerRecv(Announce(Addr1), send_ok)
    \/ ListenerLock
    \/ ListenerCheck
    \/ ListenerSpawn
    \/ \E w \in Workers : ConnectStep(w)
    \/ \E w \in Workers, outcome \in ReadOutcomes : StreamRead(w, outcome)
    \/ \E w \in Workers : PublishStep(w)
    \/ \E w \in Workers : EvictStep(w)

SpecAgain == InitAgain /\ [][NextAgain]_vars

-----------------------------------------------------------------------------
(* Claims *)

\* the worker has decided to remove its device: it is in remove_arduino, or
\* past it
Evicting(r) ==
    r.pc \in {"rm_lock", "rm_ip", "rm_thread", "rm_frame", "return", "done"}

\* the workers of an address: the threads started for it that have not yet
\* removed it
LiveWorkers(ip) ==
    {w \in Workers : wk[w].ip = ip /\ wk[w].pc \notin {"unused", "return", "done"}}

Absent(ip) ==
    /\ ~ ListIn(ip, DISCOVERED_ARDUINO_IPS)
    /\ ip \notin DOMAIN DETECTION_THREADS
    /\ MjpegUrl(ip) \notin DOMAIN SHARED_FRAMES_DICT

C1_AtMostOne == \A ip \in {Addr1, Addr2} : Cardinality(LiveWorkers(ip)) <= 1

C1_DuplicateIsNoop ==
    (/\ lst.pc \in {"check", "spawn"}
     /\ lst'.pc # lst.pc
     /\ LiveWorkers(lst.possible_ip) # {})
    => UNCHANGED << DISCOVERED_ARDUINO_IPS, DETECTION_THREADS, wk, storeVars >>

\* C1: at any time an address has at most one worker, and the listener's
\* registration of an address that has a worker changes neither the list of
\* addresses, nor the threads, nor any worker, nor the stores.
C1_OneWorkerPerAddress == [] C1_AtMostOne /\ [][C1_DuplicateIsNoop]_vars

\* two announcements of the first address were answered and handled, and it
\* has the one worker the first of them started
C1_Witness ==
    /\ SentTo(Addr1) = 2
    /\ lst.pc = "recv"
    /\ DISCOVERED_ARDUINO_IPS = << Addr1 >>
    /\ LiveWorkers(Addr1) = {1}
    /\ wk[2].pc = "unused"

\* C2 as claimed: a worker with exactly max_fail_threshold (5) failures in a
\* row, no success in between, has been evicted.
C2_EvictedAtThreshold ==
    \A w \in Workers : wk[w].run = max_fail_threshold => Evicting(wk[w])

\* C2, amended: a worker is evicted exactly when it has had more than
\* max_fail_threshold failures in a row, which is at the 6th.
C2_EvictedOverThreshold ==
    \A w \in Workers : Evicting(wk[w]) <=> wk[w].run > max_fail_threshold

C2_Witness ==
    \E w \in Workers : wk[w].run = max_fail_threshold + 1 /\ wk[w].pc = "done"

\* C3: a worker is never evicted while its failures in a row, since the last
\* success reset the counter, are fewer than max_fail_threshold.
C3_ShortRunsNeverEvict ==
    \A w \in Workers : wk[w].run < max_fail_threshold => ~ Evicting(wk[w])

\* a worker that published a frame and has since failed 4 times in a row is
\* backing off
C3_Witness ==
    \E w \in Workers :
        /\ MjpegUrl(wk[w].ip) \in DOMAIN SHARED_FRAMES_DICT
        /\ wk[w].run = max_fail_threshold - 1
        /\ wk[w].pc = "sleep"

\* C4 as claimed: a worker whose last max_fail_threshold (5) reads all failed,
\* with no frame in between, has been evicted.
C4_ReadFailuresEvict ==
    \A w \in Workers : read_fails[w] >= max_fail_threshold => Evicting(wk[w])

\* C5: a worker whose device has gone away for good comes to the end of
\* remove_arduino, where its address is in none of the list of addresses, the
\* threads and the frames, and then ends.
C5_UnreachableEvicted ==
    \A w \in Workers :
        /\ (w \in LiveWorkers(wk[w].ip) /\ wk[w].ip \in down)
               ~> (wk[w].pc = "return" /\ Absent(wk[w].ip))
        /\ (w \in LiveWorkers(wk[w].ip) /\ wk[w].ip \in down)
               ~> (wk[w].pc = "done")

C5_Witness ==
    \E w \in Workers :
        /\ wk[w].ip \in down
        /\ wk[w].pc = "done"
        /\ wk[w].cap = "None"
        /\ Absent(wk[w].ip)

\* C6 as claimed: the rolling list never holds more than RECENT_CAPACITY (50)
\* records, and no response of api_recent_detections does.
C6_LogWithinCapacity ==
    /\ Len(RECENT_DETECTIONS) <= RECENT_CAPACITY
    /\ Len(http.response) <= RECENT_CAPACITY

LastRecords(s, n) == [i \in 1 .. n |-> s[Len(s) - n + i]]

Min(a, b) == IF a < b THEN a ELSE b

\* no worker is between the append and the end of add_recent_detection
NoAppendInProgress == \A w \in Workers : wk[w].pc \notin {"check", "pop"}

\* C7 as claimed: a response of api_recent_detections, given when M records
\* have been appended, none of them since the handler began to copy the list,
\* and no append is in progress, is the last min(M, 50) of them, newest first.
C7_SnapshotIsLastRecords ==
    [][(/\ http.pc = "snapshot"
        /\ http'.pc = "idle"
        /\ http.appended = Len(RESULTS_STORAGE)
        /\ NoAppendInProgress)
       => http'.response =
              Reversed(LastRecords(RESULTS_STORAGE,
                                   Min(Len(RESULTS_STORAGE), RECENT_CAPACITY)))]_vars

\* C8 as claimed: two should_save calls for one label that both returned True
\* have times at least interval apart.
C8_SavesApart ==
    \A i, j \in 1 .. Len(answered) :
        (i < j /\ answered[i][3] /\ answered[j][3]
              /\ answered[i][1] = answered[j][1])
        => \/ answered[j][2] - answered[i][2] >= interval
           \/ answered[i][2] - answered[j][2] >= interval

\* the step in which should_save returns to worker w
Returns(w, result) ==
    /\ Len(answered') = Len(answered) + 1
    /\ wk[w].pc \in {"rl_compare", "rl_store"}
    /\ wk'[w].pc # wk[w].pc
    /\ answered'[Len(answered')] =
           << Label(wk[w]), wk[w].current_time, result >>

Accepts(last_save_time, label, t) ==
    \/ label \notin DOMAIN last_save_time
    \/ t - last_save_time[label] >= interval

\* C9: a should_save call that no other call overlaps returns True exactly
\* when the label has no time recorded or the time of the call is at least
\* interval after it, and then records the time of the call; otherwise it
\* returns False and the recorded times are as they were.
C9_ShouldSaveContract ==
    [][\A w \in Workers : \A result \in BOOLEAN :
          (Returns(w, result) /\ wk[w].alone)
          => /\ result = Accepts(RL.last_save_time, Label(wk[w]),
                                 wk[w].current_time)
             /\ RL'.last_save_time =
                    IF result
                    THEN DictSet(RL.last_save_time, Label(wk[w]),
                                 wk[w].current_time)
                    ELSE RL.last_save_time]_vars

\* calls for "car" at 0, 1 and 6: True, False, True
C9_Witness ==
    /\ Len(answered) >= 3
    /\ answered[1] = << "car", 0, TRUE >>
    /\ answered[2] = << "car", 1, FALSE >>
    /\ answered[3] = << "car", 6, TRUE >>

\* C10 as claimed: the listener sends no reply to an address that is in the
\* list of addresses with a thread of its own when the announcement comes.
C10_ReplyOnlyToUnknown ==
    [][\A ip \in {Addr1, Addr2} :
          (ip \in DOMAIN sent' /\ sent'[ip] > SentTo(ip))
          => ~ (ListIn(ip, DISCOVERED_ARDUINO_IPS)
                /\ ip \in DOMAIN DETECTION_THREADS)]_vars

\* the device at ip is registered in full or not at all: a thread only for a
\* listed address, a frame only for an address with a thread
Whole(ip) ==
    /\ ip \in DOMAIN DETECTION_THREADS => ListIn(ip, DISCOVERED_ARDUINO_IPS)
    /\ MjpegUrl(ip) \in DOMAIN SHARED_FRAMES_DICT
           => ip \in DOMAIN DETECTION_THREADS

C11_NoPartialEviction ==
    (\A w \in Workers : LOCK # WorkerTid(w))
    => \A ip \in {Addr1, Addr2} : Whole(ip)

C11_AbsentAtReturn ==
    \A w \in Workers :
        (wk[w].pc = "rm_frame" /\ wk'[w].pc = "return") => Absent(wk[w].ip)'

\* C11: when remove_arduino returns, the address is in none of the list of
\* addresses, the threads and the frames; and whoever holds LOCK other than
\* the removing worker (the listener, a request handler), or finds it free,
\* sees every address either with all its removals done or with none.
C11_EvictionIsAtomic ==
    [] C11_NoPartialEviction /\ [][C11_AbsentAtReturn]_vars

\* a request handler holds LOCK while a worker that had published a frame has
\* returned from remove_arduino
C11_Witness ==
    /\ LOCK = HttpTid
    /\ \E w \in Workers :
           /\ wk[w].pc \in {"return", "done"}
           /\ wk[w].fail_count > max_fail_threshold
           /\ Absent(wk[w].ip)
           /\ nframes > 0

InRemove(r) == r.pc \in {"rm_ip", "rm_thread", "rm_frame"}

\* C12: a step of remove_arduino for an address that is in none of the list
\* of addresses, the threads and the frames goes on to the next line of
\* remove_arduino (nothing is raised) and leaves the list, the threads, the
\* frames and both detection logs as they were.
C12_EvictAbsentIsNoop ==
    [][\A w \in Workers :
          (InRemove(wk[w]) /\ Absent(wk[w].ip) /\ wk'[w] # wk[w])
          => /\ UNCHANGED << supervisorVars, storeVars >>
             /\ wk'[w].pc \in {"rm_thread", "rm_frame", "return"}]_vars

\* remove_arduino is past its first test for an address that was not
\* registered, while the other address is registered and has a frame, and the
\* log has a record
C12_Witness ==
    /\ wk[1].pc = "rm_thread"
    /\ Absent(wk[1].ip)
    /\ Len(DISCOVERED_ARDUINO_IPS) = 1
    /\ DOMAIN SHARED_FRAMES_DICT # {}
    /\ Len(RECENT_DETECTIONS) = 1

\* the steps of the frame store: put by worker w, remove by worker w, get by
\* the open feed
Puts(w) == wk[w].pc = "put" /\ wk'[w].pc # "put"

Removes(w) == wk[w].pc = "rm_frame" /\ wk'[w].pc = "return"

Gets == http.pc = "stream" /\ http'.pc = "stream" /\ http' # http

C13_PutLaw ==
    \A w \in Workers :
        Puts(w) =>
            /\ DOMAIN SHARED_FRAMES_DICT' =
                   DOMAIN SHARED_FRAMES_DICT \cup {MjpegUrl(wk[w].ip)}
            /\ \A k \in DOMAIN SHARED_FRAMES_DICT' :
                   SHARED_FRAMES_DICT'[k] =
                       IF k = MjpegUrl(wk[w].ip)
                       THEN [frame |-> wk[w].frame, boxes |-> wk[w].detections]
                       ELSE SHARED_FRAMES_DICT[k]

C13_RemoveLaw ==
    \A w \in Workers :
        Removes(w) =>
            /\ DOMAIN SHARED_FRAMES_DICT' =
                   DOMAIN SHARED_FRAMES_DICT \ {MjpegUrl(wk[w].ip)}
            /\ \A k \in DOMAIN SHARED_FRAMES_DICT' :
                   SHARED_FRAMES_DICT'[k] = SHARED_FRAMES_DICT[k]

C13_NothingElseWrites ==
    (\A w \in Workers : ~ Puts(w) /\ ~ Removes(w))
    => SHARED_FRAMES_DICT' = SHARED_FRAMES_DICT

C13_GetLaw ==
    Gets => http'.frame_to_stream =
                IF http.source_key \in DOMAIN SHARED_FRAMES_DICT
                THEN SHARED_FRAMES_DICT[http.source_key]
                ELSE NoFrame

\* C13: the frame store starts empty; a put makes its key hold the frame put,
\* whatever it held, and leaves the other keys; a remove takes its key out and
\* leaves the other keys; no other step writes the store; and a get returns
\* what its key holds, or None.  So a get returns the frame of the last put
\* of its key that no remove followed, and None if there is none.
C13_FrameStoreLaws ==
    [][C13_PutLaw /\ C13_RemoveLaw /\ C13_NothingElseWrites /\ C13_GetLaw]_vars

\* the feed has been given frame 2, put by the second worker of the address
\* after frame 1 was put and the first worker removed the key
C13_Witness ==
    /\ wk[1].pc = "done"
    /\ wk[2].ip = wk[1].ip
    /\ Len(RESULTS_STORAGE) = 2
    /\ RESULTS_STORAGE[1].frame = 1
    /\ http.pc = "stream"
    /\ http.frame_to_stream = [frame |-> 2, boxes |-> << "car" >>]

\* thread 1, the only thread there has been, has returned from remove_arduino
\* and the listener is waiting for a datagram
OneAnnouncedAndEvicted ==
    /\ wk[1].pc \in {"return", "done"}
    /\ \A w \in Workers \ {1} : wk[w].pc = "unused"
    /\ lst.pc = "recv"

C14_FeedGone ==
    (/\ OneAnnouncedAndEvicted
     /\ http.pc = "lookup"
     /\ http.source_id = 0
     /\ http'.pc # "lookup")
    => (http'.pc = "idle" /\ http'.status = 404)

C14_NoMoreRecords ==
    OneAnnouncedAndEvicted
    => \A i \in 1 .. Len(RECENT_DETECTIONS') :
           RECENT_DETECTIONS'[i].source = MjpegUrl(wk[1].ip)
           => (i <= Len(RECENT_DETECTIONS)
               /\ RECENT_DETECTIONS'[i] = RECENT_DETECTIONS[i])

\* C14: once the one device that was announced has been removed by its
\* worker, a GET /video_feed/0 is answered 404 and the rolling list gets no
\* new record of that device.
C14_EvictedDeviceIsGone == [][C14_FeedGone /\ C14_NoMoreRecords]_vars

\* GET /video_feed/0 is being handled after the device, which has a record in
\* the rolling list, was removed
C14_Witness ==
    /\ OneAnnouncedAndEvicted
    /\ http.pc = "lookup"
    /\ http.source_id = 0
    /\ Len(RECENT_DETECTIONS) = 1
    /\ RECENT_DETECTIONS[1].source = MjpegUrl(wk[1].ip)

C15_Lookup ==
    (http.pc = "lookup" /\ http'.pc # "lookup")
    => /\ http'.status = 404
              <=> (\/ http.source_id < 0
                   \/ http.source_id >= Len(DISCOVERED_ARDUINO_IPS))
       /\ http'.status # 404
              => /\ http'.status = 200
                 /\ http'.pc = "stream"
                 /\ http'.source_key =
                        MjpegUrl(DISCOVERED_ARDUINO_IPS[http.source_id + 1])

C15_Negative ==
    (http.pc = "idle" /\ http' # http /\ http'.source_id < 0)
    => (http'.pc = "idle" /\ http'.status = 404)

\* C15: GET /video_feed/<source_id> is answered 404 exactly when source_id is
\* negative or not less than the length the list of addresses has when the
\* handler looks, under LOCK; otherwise the response streams the frames of the
\* address at that place of the list.
C15_FeedIndex == [][C15_Lookup /\ C15_Negative]_vars

\* the feed of the second of two listed addresses is open
C15_Witness ==
    /\ http.pc = "stream"
    /\ http.status = 200
    /\ http.source_id = 1
    /\ Len(DISCOVERED_ARDUINO_IPS) = 2
    /\ http.source_key = MjpegUrl(DISCOVERED_ARDUINO_IPS[2])

\* a message that is not an announcement: its text does not begin with
\* "UNO_R4 IP:", or what follows is not four parts separated by dots
Malformed(message) ==
    \/ message.head # "UNO_R4 IP:"
    \/ Len(message.body) # 4

\* C16: the step that receives a malformed message sends nothing, registers
\* nothing, starts no thread and leaves all shared state and every thread but
\* the listener's own locals as they were; the listener is back at recvfrom.
C16_MalformedDiscarded ==
    [][\A message \in Messages, send_ok \in BOOLEAN :
          (Malformed(message) /\ ListenerRecv(message, send_ok))
          => /\ UNCHANGED << sent, supervisorVars, LOCK, storeVars, wk,
                             limiterVars, http >>
             /\ lst'.pc = "recv"]_vars

\* the announcement with a three-part address has been received: nothing was
\* sent, nothing is registered, no thread runs
C16_Witness ==
    /\ lst.pc = "recv"
    /\ lst.possible_ip = << "10", "0", "5" >>
    /\ nrecv = 1
    /\ DOMAIN sent = {}
    /\ DISCOVERED_ARDUINO_IPS = << >>
    /\ DOMAIN DETECTION_THREADS = {}
    /\ \A w \in Workers : wk[w].pc = "unused"

ListenerInLoop == lst.pc \in {"recv", "lock", "check", "spawn"}

\* C17: the listener is always in its loop, and from anywhere in the loop it
\* comes back to recvfrom: after a socket error, after a malformed message,
\* after a reply that could not be sent, after a thread that could not be
\* started.
C17_ListenerGoesOn ==
    /\ [] ListenerInLoop
    /\ (lst.pc # "recv") ~> (lst.pc = "recv")

\* the thread of the first address announced could not be started; the
\* listener went on and registered the next address, whose thread runs
C17_Witness ==
    /\ lst.pc = "recv"
    /\ Len(DISCOVERED_ARDUINO_IPS) = 2
    /\ DETECTION_THREADS[DISCOVERED_ARDUINO_IPS[1]] = 0
    /\ DETECTION_THREADS[DISCOVERED_ARDUINO_IPS[2]] = 1
    /\ wk[1].pc \notin {"unused", "return", "done"}

\* what the program holds of the device at ip
Holding(ip, ips, threads, frames) ==
    << ListIn(ip, ips),
       IF ip \in DOMAIN threads THEN << threads[ip] >> ELSE << >>,
       IF MjpegUrl(ip) \in DOMAIN frames THEN << frames[MjpegUrl(ip)] >>
                                         ELSE << >> >>

\* C18: a step of one worker, be it a failure, the end of a back-off or a
\* step of remove_arduino, leaves every other thread's locals (position,
\* fail_count, stream), the listener, and what the program holds of every
\* other address (its place in the list of addresses, its thread, its frame)
\* as they were.
C18_FaultIsolation ==
    [][\A w \in Workers :
          (wk[w].pc # "unused" /\ wk'[w] # wk[w])
          => /\ \A v \in Workers \ {w} : wk'[v] = wk[v]
             /\ lst' = lst
             /\ \A ip \in {Addr1, Addr2} \ {wk[w].ip} :
                    Holding(ip, DISCOVERED_ARDUINO_IPS', DETECTION_THREADS',
                            SHARED_FRAMES_DICT')
                    = Holding(ip, DISCOVERED_ARDUINO_IPS, DETECTION_THREADS,
                              SHARED_FRAMES_DICT)]_vars

\* one worker has removed its device and ended; the worker of the other
\* address, which has published a frame, is registered and streaming
C18_Witness ==
    \E w, v \in Workers :
        /\ wk[w].pc = "done"
        /\ wk[v].pc = "read"
        /\ wk[v].ip # wk[w].ip
        /\ Holding(wk[v].ip, DISCOVERED_ARDUINO_IPS, DETECTION_THREADS,
                   SHARED_FRAMES_DICT)
           = << TRUE, << v >>, << [frame |-> 1, boxes |-> << "car" >>] >> >>

\* C19: no step of a request handler (index, api_recent_detections,
\* video_feed, a turn of generate_frames) changes the list of addresses, the
\* threads, any worker's locals, the frames or the detection logs.
C19_ServerOnlyReads ==
    [][ServerStep
       => UNCHANGED << DISCOVERED_ARDUINO_IPS, DETECTION_THREADS, wk,
                       SHARED_FRAMES_DICT, RESULTS_STORAGE,
                       RECENT_DETECTIONS >>]_vars

\* an open feed has yielded the frame of a registered device
C19_Witness ==
    /\ http.pc = "stream"
    /\ http.yielded = [frame |-> 1, boxes |-> << "car" >>]
    /\ http.source_key \in DOMAIN SHARED_FRAMES_DICT
    /\ Len(DISCOVERED_ARDUINO_IPS) > 0
    /\ Len(RECENT_DETECTIONS) = 1

\* the program holds nothing of the address of the ended thread w, or holds
\* what a later registration of the address put there
Released(w) ==
    /\ wk[w].ip \in DOMAIN DETECTION_THREADS
           => DETECTION_THREADS[wk[w].ip] # w
    /\ \/ Absent(wk[w].ip)
       \/ LiveWorkers(wk[w].ip) # {}
       \/ (lst.pc = "spawn" /\ lst.possible_ip = wk[w].ip)

C20_EndedAfterEviction ==
    \A w \in Workers : wk[w].pc \in {"return", "done"} => Released(w)

C20_ReturnsFromRemove ==
    \A w \in Workers :
        (wk'[w].pc \in {"return", "done"} /\ wk[w].pc \notin {"return", "done"})
        => (wk[w].pc = "rm_frame" /\ wk'[w].pc = "return")

\* C20: a thread of process_stream_loop ends only by returning from
\* remove_arduino: whenever a thread has ended, its own entry in the threads
\* is gone and its address is in none of the list, the threads and the frames
\* unless it has been registered again since.
C20_EvictionOnlyExit == [] C20_EndedAfterEviction /\ [][C20_ReturnsFromRemove]_vars

\* a thread has ended, its stream released, after the failure that took
\* fail_count over the threshold, and nothing is held of its address
C20_Witness ==
    \E w \in Workers :
        /\ wk[w].pc = "done"
        /\ wk[w].cap = "None"
        /\ wk[w].fail_count = max_fail_threshold + 1
        /\ Absent(wk[w].ip)
        /\ LiveWorkers(wk[w].ip) = {}

-----------------------------------------------------------------------------
\* C21: a save_detection that raises does not change the worker's course: the
\* worker keeps its open stream and its failure counter, and goes on with the
\* next detection of the frame or with the next read.
C21_SaveFailureIgnored ==
    [][\A w \in Workers :
          (wk[w].pc = "save" /\ wk'[w] # wk[w]) =>
              /\ wk'[w].fail_count = wk[w].fail_count
              /\ wk'[w].cap = "open"
              /\ wk'[w].pc \in { "save", "rl_time", "read" }]_vars

-----------------------------------------------------------------------------
\* the stream did not open: StreamOpen left the worker outside the read loop
C23_OpenFailed(w) ==
    /\ wk[w].pc = "open"
    /\ wk'[w] # wk[w]
    /\ wk'[w].pc # "read"

C23_CountsAndDecides(w) ==
    C23_OpenFailed(w) =>
        /\ wk'[w].fail_count = wk[w].fail_count + 1
        /\ wk'[w].pc = IF wk'[w].fail_count > max_fail_threshold
                       THEN "rm_lock" ELSE "sleep"
        /\ wk'[w].pc = "rm_lock" <=>
               wk'[w].fail_count = max_fail_threshold + 1

C23_BacksOffAndRetries(w) ==
    (wk[w].pc = "sleep" /\ wk'[w] # wk[w]) =>
        /\ wk'[w].pc = "open"
        /\ wk'[w].cap = "None"
        /\ wk'[w].fail_count = wk[w].fail_count

\* C23: every failed open adds one to fail_count; the worker goes to
\* remove_arduino exactly when the count is then over max_fail_threshold,
\* which is at 6, and otherwise sleeps and opens the stream again with the
\* count it had.
C23_FailedOpen ==
    [][\A w \in Workers :
          C23_CountsAndDecides(w) /\ C23_BacksOffAndRetries(w)]_vars

\* the open that just failed was the sixth failure in a row, and the worker,
\* without a stream, is about to remove its device
C23_Witness ==
    \E w \in Workers :
        /\ wk[w].pc = "rm_lock"
        /\ wk[w].cap = "None"
        /\ wk[w].fail_count = max_fail_threshold + 1

-----------------------------------------------------------------------------
\* the worker is in the read loop, between cap.isOpened() and the next failure
InReadLoop(r) ==
    r.pc \in { "read", "detect", "put", "append", "check", "pop", "rl_time",
               "rl_member", "rl_compare", "rl_store", "save" }

\* a worker opens a stream only when it holds none, holds one all through the
\* read loop, and holds none before it starts and after it has returned
C24_OneHandle ==
    \A w \in Workers :
        /\ wk[w].cap \in { "open", "None" }
        /\ wk[w].pc \in { "unused", "open", "done" } => wk[w].cap = "None"
        /\ InReadLoop(wk[w]) => wk[w].cap = "open"

\* a read that fails without eviction leads to the backoff, and the backoff to
\* a new open with the stream released, never back into the read loop
C24_Reconnects(w) ==
    /\ (wk[w].pc = "read" /\ wk'[w] # wk[w] /\ wk'[w].pc # "detect") =>
           wk'[w].pc \in { "sleep", "rm_lock" }
    /\ (wk[w].pc = "sleep" /\ wk'[w] # wk[w]) =>
           (wk'[w].pc = "open" /\ wk'[w].cap = "None")
    /\ (wk[w].pc # "read" /\ wk'[w].pc = "read" /\ wk[w].pc # "open") =>
           (InReadLoop(wk[w]) /\ wk'[w].fail_count = wk[w].fail_count)

\* C24: after a read failure without eviction the worker releases its stream
\* and opens it anew, never reading on from the old one; a worker has at most
\* one open stream at a time and none once it has returned.
C24_FullReconnect ==
    [] C24_OneHandle /\ [][\A w \in Workers : C24_Reconnects(w)]_vars

\* a read of the first worker failed after its last frame, and the worker has
\* released the stream and is about to open it again
C24_Witness ==
    /\ read_fails[1] = 1
    /\ wk[1].pc = "open"
    /\ wk[1].cap = "None"
    /\ MjpegUrl(wk[1].ip) \in DOMAIN SHARED_FRAMES_DICT

-----------------------------------------------------------------------------
\* the worker has put the frame it read and is still at work on that frame
Published(r) ==
    r.pc \in { "append", "check", "pop", "rl_time", "rl_member", "rl_compare",
               "rl_store", "save" }

\* a key of the store is the stream of an address that has a live worker
C25_OnlyActive ==
    \A ip \in { Addr1, Addr2 } :
        MjpegUrl(ip) \in DOMAIN SHARED_FRAMES_DICT => LiveWorkers(ip) # {}

\* what the key of a live worker holds: the frame the worker read last, with
\* its boxes, once the worker has put it; until then a frame read before it
C25_Latest ==
    \A w \in Workers :
        LET url == MjpegUrl(wk[w].ip)
        IN  w \in LiveWorkers(wk[w].ip) =>
                /\ Published(wk[w]) =>
                       /\ url \in DOMAIN SHARED_FRAMES_DICT
                       /\ SHARED_FRAMES_DICT[url] =
                              draw_boxes(wk[w].frame, wk[w].detections)
                /\ (/\ url \in DOMAIN SHARED_FRAMES_DICT
                    /\ ~ Published(wk[w])
                    /\ wk[w].frame # 0) =>
                       SHARED_FRAMES_DICT[url].frame < wk[w].frame

\* a key that is overwritten gets a frame read later than the one it held
C25_Newer ==
    \A url \in DOMAIN SHARED_FRAMES_DICT \cap DOMAIN SHARED_FRAMES_DICT' :
        SHARED_FRAMES_DICT'[url] # SHARED_FRAMES_DICT[url] =>
            SHARED_FRAMES_DICT'[url].frame > SHARED_FRAMES_DICT[url].frame

\* C25: the frame store has a key only for an address with a live worker,
\* and the key holds the last frame that worker read and drew; the key of a
\* removed address is gone until the address is registered again and its
\* new worker puts a frame.
C25_StoreFollowsWorkers ==
    [] (C25_OnlyActive /\ C25_Latest) /\ [][C25_Newer]_vars

\* the first worker of the address put frame 1 and removed the address; the
\* address was registered again and its second worker has put frame 2
C25_Witness ==
    /\ wk[1].pc = "done"
    /\ wk[2].ip = wk[1].ip
    /\ Published(wk[2])
    /\ wk[2].frame = 2
    /\ MjpegUrl(wk[2].ip) \in DOMAIN SHARED_FRAMES_DICT
    /\ SHARED_FRAMES_DICT[MjpegUrl(wk[2].ip)] = draw_boxes(2, << "car" >>)
    /\ Len(RESULTS_STORAGE) >= 1
    /\ RESULTS_STORAGE[1].frame = 1

-----------------------------------------------------------------------------
NoDuplicates(s) == \A i, j \in 1 .. Len(s) : s[i] = s[j] => i = j

\* with LOCK free, the addresses listed are the addresses that have a thread,
\* each listed once
C26_Agree ==
    LOCK = Free =>
        /\ Range(DISCOVERED_ARDUINO_IPS) = DOMAIN DETECTION_THREADS
        /\ NoDuplicates(DISCOVERED_ARDUINO_IPS)

\* the listener holds LOCK from its membership test to the end of the spawn,
\* and a worker holds it all through the removals of remove_arduino
C26_HeldThroughout ==
    /\ lst.pc \in { "check", "spawn" } => LOCK = ListenerTid
    /\ \A w \in Workers :
           wk[w].pc \in { "rm_ip", "rm_thread", "rm_frame" } =>
               LOCK = WorkerTid(w)

\* the list and the threads are changed only by the thread that holds LOCK
C26_ChangedUnderLock ==
    (\/ DISCOVERED_ARDUINO_IPS' # DISCOVERED_ARDUINO_IPS
     \/ DETECTION_THREADS' # DETECTION_THREADS)
    => \/ LOCK = ListenerTid /\ lst' # lst
       \/ \E w \in Workers : LOCK = WorkerTid(w) /\ wk'[w] # wk[w]

\* C26: whenever LOCK is free the addresses in DISCOVERED_ARDUINO_IPS are the
\* keys of DETECTION_THREADS and none is listed twice; the listener's test
\* and its append and spawn, and the removals of remove_arduino, are done
\* with LOCK held from the first to the last of them.
C26_RegistryUnderOneLock ==
    [] (C26_Agree /\ C26_HeldThroughout) /\ [][C26_ChangedUnderLock]_vars

\* the listener waits for LOCK to register an address while the worker of
\* that address, holding LOCK, has taken it from the list and not yet from
\* the threads
C26_Witness ==
    \E w \in Workers :
        /\ wk[w].pc = "rm_thread"
        /\ LOCK = WorkerTid(w)
        /\ lst.pc = "lock"
        /\ lst.possible_ip = wk[w].ip
        /\ Range(DISCOVERED_ARDUINO_IPS) # DOMAIN DETECTION_THREADS

-----------------------------------------------------------------------------
\* the records of one source are in the order in which their frames were read
\* (frames are numbered as they are read)
InReadOrder(records) ==
    \A i, j \in 1 .. Len(records) :
        (i < j /\ records[i].source = records[j].source) =>
            records[i].frame < records[j].frame

C27_LogInOrder ==
    InReadOrder(RECENT_DETECTIONS) /\ InReadOrder(RESULTS_STORAGE)

\* a frame put under a key was read after the frame the key held
C27_StoreInOrder ==
    \A w \in Workers :
        (Puts(w) /\ MjpegUrl(wk[w].ip) \in DOMAIN SHARED_FRAMES_DICT) =>
            /\ SHARED_FRAMES_DICT[MjpegUrl(wk[w].ip)].frame < wk[w].frame
            /\ SHARED_FRAMES_DICT'[MjpegUrl(wk[w].ip)].frame = wk[w].frame

\* C27: for each device, the frames written to its key of the frame store
\* and its records in the rolling list (and in RESULTS_STORAGE) follow one
\* another in the order in which the frames were read, however the workers
\* of the devices interleave.
C27_ReadOrderKept == [] C27_LogInOrder /\ [][C27_StoreInOrder]_vars

\* the rolling list was full of records of the first device; a record of the
\* second device and then one more of the first were appended, and the two
\* oldest records were dropped
C27_Witness ==
    LET n == Len(RECENT_DETECTIONS)
    IN  /\ n = RECENT_CAPACITY
        /\ RECENT_DETECTIONS[1] = Prefilled(3)[3]
        /\ RECENT_DETECTIONS[n - 1].source = MjpegUrl(Addr2)
        /\ RECENT_DETECTIONS[n].source = MjpegUrl(Addr1)
        /\ SHARED_FRAMES_DICT[MjpegUrl(Addr1)].frame = RECENT_CAPACITY + 2

-----------------------------------------------------------------------------
\* the steps at which a worker waits for the network, the detector or the
\* clock: cv2.VideoCapture, cap.read, DETECTOR.detect, time.sleep
Blocking(r) == r.pc \in { "open", "read", "detect", "sleep" }

\* C28: a worker that is opening its stream, reading a frame, running the
\* detector or sleeping in a backoff does not hold LOCK, the one lock there is.
C28_NoLockWhileBlocking ==
    \A w \in Workers : Blocking(wk[w]) => LOCK # WorkerTid(w)

\* one worker is in the detector while another holds LOCK in remove_arduino
C28_Witness ==
    \E w, v \in Workers :
        /\ wk[w].pc = "detect"
        /\ wk[v].pc = "rm_ip"
        /\ LOCK = WorkerTid(v)

-----------------------------------------------------------------------------
\* RESULTS_STORAGE holds every record ever appended, in order, and the rolling
\* list is at any instant a run of them: records first .. last, where last is
\* the number appended so far and first - 1 the number dropped so far.  The
\* runs the list has passed through since reversed() was called lie between
\* the run it was then and the run it is now.
C29_Instants ==
    LET last_now == Len(RESULTS_STORAGE)
        first_now == last_now - Len(RECENT_DETECTIONS) + 1
        last_then == http.appended
        first_then == last_then - http.it_index + 1
    IN  { SubSeq(RESULTS_STORAGE, first, last) :
              first \in first_then .. first_now,
              last \in last_then .. last_now }

C29_AtOneInstant ==
    (http.pc = "snapshot" /\ http'.pc = "idle") =>
        \E records \in C29_Instants : http'.response = Reversed(records)

C29_ReturnedIsKept ==
    (http.pc = "idle" /\ http'.pc = "idle") => http'.response = http.response

\* C29 as claimed: the response of api_recent_detections is the rolling list,
\* newest first, as it was at one instant of the call, and no append made
\* during or after the call changes a response that was returned.
C29_SnapshotIsACopy == [][C29_AtOneInstant /\ C29_ReturnedIsKept]_vars

-----------------------------------------------------------------------------
\* a well-formed announcement whose reply could not be sent is taken on to
\* the registration like any other
C30_GoesOnToRegister ==
    \A message \in Messages :
        (/\ StartsWithTag(message)
         /\ IsDotted(message.body)
         /\ ListenerRecv(message, FALSE))
        => /\ lst' = [pc |-> "lock", possible_ip |-> message.body]
           /\ sent' = sent

\* when the listener has dealt with an address that was never sent a reply,
\* the address is listed and has a thread and a worker, and the listener is
\* back at recvfrom
C30_Registered ==
    \A ip \in { Addr1, Addr2 } :
        (/\ lst.pc \in { "check", "spawn" }
         /\ lst.possible_ip = ip
         /\ lst'.pc # lst.pc
         /\ lst'.pc # "spawn"
         /\ SentTo(ip) = 0)
        => /\ lst'.pc = "recv"
           /\ ListIn(ip, DISCOVERED_ARDUINO_IPS')
           /\ ip \in DOMAIN DETECTION_THREADS'
           /\ LiveWorkers(ip)' # {}

\* C30: when the reply to a well-formed announcement cannot be sent, the
\* listener still registers the address and starts its worker, and goes on
\* to the next datagram.
C30_SendFailureNotFatal == [][C30_GoesOnToRegister /\ C30_Registered]_vars

\* an address that was never sent a reply is listed and has a worker, and
\* the listener is waiting for the next datagram
C30_Witness ==
    \E ip \in { Addr1, Addr2 } :
        /\ SentTo(ip) = 0
        /\ ListIn(ip, DISCOVERED_ARDUINO_IPS)
        /\ ip \in DOMAIN DETECTION_THREADS
        /\ LiveWorkers(ip) # {}
        /\ lst.pc = "recv"

-----------------------------------------------------------------------------
\* what last_save_time holds for a label: its time, or nothing
TimeOf(last_save_time, label) ==
    IF label \in DOMAIN last_save_time THEN << last_save_time[label] >>
                                        ELSE << >>

\* the time recorded for a label changes only in a call for that label
C31_OwnLabelOnly ==
    \A label \in Labels :
        TimeOf(RL'.last_save_time, label) # TimeOf(RL.last_save_time, label)
        => \E w \in Workers :
               /\ wk[w].pc = "rl_store"
               /\ wk'[w].pc = "save"
               /\ Label(wk[w]) = label

\* a call is refused only on the time recorded for its own label
C31_RefusedOnOwnTime ==
    \A w \in Workers :
        Returns(w, FALSE) =>
            /\ Label(wk[w]) \in DOMAIN RL.last_save_time
            /\ wk[w].current_time - RL.last_save_time[Label(wk[w])] < interval

\* a call for a label that has no time recorded goes on to record one,
\* whatever is recorded for the other labels
C31_FirstOfLabel ==
    \A w \in Workers :
        (wk[w].pc = "rl_member" /\ wk'[w].pc # "rl_member") =>
            (wk'[w].pc = "rl_store"
                 <=> Label(wk[w]) \notin DOMAIN RL.last_save_time)

\* C31: should_save keeps one time per label: a call for one label leaves the
\* times of the other labels as they are, and a call is answered on the time
\* of its own label alone.
C31_PerLabel ==
    [][C31_OwnLabelOnly /\ C31_RefusedOnOwnTime /\ C31_FirstOfLabel]_vars

\* "car" was saved, "dog" was saved less than interval later, and the time
\* kept for "car" is still that of its own save
C31_Witness ==
    \E i, j \in 1 .. Len(answered) :
        /\ i < j
        /\ answered[i][1] = "car" /\ answered[i][3]
        /\ answered[j][1] = "dog" /\ answered[j][3]
        /\ answered[j][2] > answered[i][2]
        /\ answered[j][2] - answered[i][2] < interval
        /\ TimeOf(RL.last_save_time, "car") = << answered[i][2] >>

-----------------------------------------------------------------------------
\* the listener, holding LOCK, tests an address that has no worker (none was
\* ever started for it, or its worker has removed it): the address is new
C32_TreatedAsNew ==
    \A ip \in { Addr1, Addr2 } :
        (/\ lst.pc = "check"
         /\ lst.possible_ip = ip
         /\ lst' # lst
         /\ LiveWorkers(ip) = {})
        => /\ lst' = [lst EXCEPT !.pc = "spawn"]
           /\ DISCOVERED_ARDUINO_IPS' = Append(DISCOVERED_ARDUINO_IPS, ip)

\* the spawn that follows starts exactly one worker for the address, at the
\* open with fail_count 0, and leaves the other workers alone
C32_OneFreshWorker ==
    \A ip \in { Addr1, Addr2 } :
        (lst.pc = "spawn" /\ lst.possible_ip = ip /\ lst' # lst)
        => /\ lst' = [pc |-> "recv", possible_ip |-> NoIp]
           /\ NoDuplicates(DISCOVERED_ARDUINO_IPS')
           /\ ListIn(ip, DISCOVERED_ARDUINO_IPS')
           /\ \E w \in Workers :
                  /\ wk[w].pc = "unused"
                  /\ wk'[w] = Connecting(ip)
                  /\ DETECTION_THREADS' = DictSet(DETECTION_THREADS, ip, w)
                  /\ LiveWorkers(ip)' = { w }
                  /\ \A v \in Workers \ { w } : wk'[v] = wk[v]

\* an address that has a worker when the listener tests it is dropped, with
\* nothing kept of the announcement
C32_Ignored ==
    \A ip \in { Addr1, Addr2 } :
        (/\ lst.pc = "check"
         /\ lst.possible_ip = ip
         /\ lst' # lst
         /\ LiveWorkers(ip) # {})
        => /\ lst' = [pc |-> "recv", possible_ip |-> NoIp]
           /\ UNCHANGED << DISCOVERED_ARDUINO_IPS, DETECTION_THREADS, wk >>

\* an address is listed, and a worker started, only by the listener for the
\* datagram it has in hand
C32_NotReplayed ==
    /\ Len(DISCOVERED_ARDUINO_IPS') > Len(DISCOVERED_ARDUINO_IPS)
           => lst.pc = "check"
    /\ (\E w \in Workers : wk[w].pc = "unused" /\ wk'[w].pc # "unused")
           => lst.pc = "spawn"

-----------------------------------------------------------------------------
\* the thread that is about to take LOCK does not hold it
C33_NoReacquire ==
    /\ lst.pc = "lock" => LOCK # ListenerTid
    /\ \A w \in Workers : wk[w].pc = "rm_lock" => LOCK # WorkerTid(w)
    /\ http.pc = "idle" => LOCK # HttpTid

\* LOCK is held only by a thread inside its with block
C33_HeldInBlock ==
    /\ LOCK = ListenerTid => lst.pc \in { "check", "spawn" }
    /\ \A w \in Workers :
           LOCK = WorkerTid(w) =>
               wk[w].pc \in { "rm_ip", "rm_thread", "rm_frame" }
    /\ LOCK = HttpTid =>
           http.pc \in { "reversed", "snapshot", "index", "lookup" }

\* C33: no thread takes LOCK while it holds it; LOCK, once taken by the
\* listener, by a worker in remove_arduino or by a request handler, is
\* released; and under fair scheduling the listener and every worker that
\* wait for LOCK get it.
C33_NoDeadlock ==
    /\ [] (C33_NoReacquire /\ C33_HeldInBlock)
    /\ (LOCK # Free) ~> (LOCK = Free)
    /\ (lst.pc = "lock") ~> (lst.pc = "check")
    /\ \A w \in Workers : (wk[w].pc = "rm_lock") ~> (wk[w].pc = "rm_ip")

\* a worker that waited for LOCK while a request handler held it, with the
\* listener waiting too, has got it
C33_Witness ==
    \E w \in Workers :
        /\ LOCK = WorkerTid(w)
        /\ wk[w].pc = "rm_ip"
        /\ lst.pc = "lock"
        /\ http.status = 200
        /\ http.pc = "idle"

-----------------------------------------------------------------------------
\* the key of a feed is the stream of the address that was at the index when
\* video_feed looked it up, and stays that while the feed is open
C34_KeyFixed ==
    /\ (http.pc = "lookup" /\ http'.pc = "stream") =>
           http'.source_key =
               MjpegUrl(ListAt(DISCOVERED_ARDUINO_IPS, http.source_id))
    /\ (http.pc = "stream" /\ http'.pc = "stream") =>
           /\ http'.source_key = http.source_key
           /\ http'.source_id = http.source_id

\* a turn of generate_frames gives the frame its key holds, if any, and
\* nothing when the key holds none; for the key of an address that has no
\* worker it gives nothing
C34_PollsItsKey ==
    Gets =>
        /\ http'.frame_to_stream =
               DictGet(SHARED_FRAMES_DICT, http.source_key)
        /\ http'.yielded \in { NoFrame, http'.frame_to_stream }
        /\ http.source_key \notin DOMAIN SHARED_FRAMES_DICT =>
               http'.yielded = NoFrame
        /\ \A ip \in { Addr1, Addr2 } :
               (http.source_key = MjpegUrl(ip) /\ LiveWorkers(ip) = {}) =>
                   http'.yielded = NoFrame

\* an open feed can always take its next turn, whoever holds LOCK, and only
\* the client ends it
C34_GoesOn ==
    http.pc = "stream" =>
        /\ ENABLED (\E ret \in BOOLEAN : FeedPoll(ret))
        /\ http.status = 200

\* C34: an open feed keeps the key of the device that was at its index when
\* the request was accepted, whatever removals do to the list afterwards;
\* each turn yields the frame of that key if the key has one and nothing
\* otherwise, as for a removed device, and the feed neither waits nor ends.
C34_FeedKeepsItsDevice ==
    [] C34_GoesOn /\ [][C34_KeyFixed /\ C34_PollsItsKey]_vars

\* /video_feed/1 was opened for the second address listed; the first was
\* removed, so that the list has no index 1 any more, and the feed has
\* yielded the frame of its device, which is now at index 0
C34_Witness ==
    /\ http.pc = "stream"
    /\ http.source_id = 1
    /\ Len(DISCOVERED_ARDUINO_IPS) = 1
    /\ http.source_key = MjpegUrl(DISCOVERED_ARDUINO_IPS[1])
    /\ http.yielded # NoFrame
    /\ http.source_key \in DOMAIN SHARED_FRAMES_DICT
    /\ http.yielded = SHARED_FRAMES_DICT[http.source_key]

====
